---- MODULE Spec2Model ----
(***************************************************************************)
(* A model of arango/arango.py: the ArangoDB client wrapper, its cache of  *)
(* Database objects and the HTTP exchanges it has with the server.         *)
(*                                                                         *)
(* The client is single-threaded: every method runs to completion, so each *)
(* method is one action.  The server is the environment: it answers every  *)
(* request with a status the code then inspects, and other clients may     *)
(* create and drop databases between two calls of this client.             *)
(***************************************************************************)
EXTENDS Integers, Sequences, FiniteSets, TLC

\* ------------------------------------------------------------------ bounds

\* Number of Database objects the cache may construct in one behaviour
\* (object identities are drawn from 1..MaxObjects).
MaxObjects == 3

\* ------------------------------------------------------------------- inputs

\* Database names the callers and the other clients use.
Names == {"_system", "a", "b"}

\* Values of the ``users`` argument: the default None, an empty dict and a
\* dict with one user configuration.
UsersArgs == {"None", "{}", "{root}"}

\* Status codes the code compares against.
HTTP_OK == 200
HTTP_CREATED == 201

\* Statuses the server answers with when it does not carry out the request.
\* 202 is a success-class status that is neither 200 nor 201.
HeadStatuses == {HTTP_OK, 503}
GetStatuses == {HTTP_OK, 500}
PostRefusals == {202, 409}
DeleteRefusals == {202, 404}

\* ------------------------------------------------------------------ objects

Range(s) == {s[i] : i \in 1..Len(s)}

\* Connection(protocol, host, port, username, password, db_name): protocol,
\* host, port and credentials are the same for every connection of one
\* client, so a connection is its identity and the database it is scoped to.
Connection(cid, db_name) == [cid |-> cid, db_name |-> db_name]

\* Database(name, client): its identity, its name and the connection it uses.
Database(hid, name, connection) == [hid |-> hid, name |-> name, conn |-> connection]

NoConnection == Connection(0 - 1, "None")
NoDatabase == Database(0 - 1, "None", NoConnection)
EmptyCache == [n \in {} |-> NoDatabase]

\* self._database_cache while the attribute does not exist: before __init__
\* reaches line 48, and for good when __init__ raises.
NoCache == [n \in {"None"} |-> NoDatabase]

\* A request as the server sees it, with the status it answered.
Request(method, path, body, status) ==
    [method |-> method, path |-> path, body |-> body, status |-> status]

NoBody == {}

VARIABLES
    phase,              \* "new", "ready" (constructed) or "failed" (__init__ raised)
    srvAll,             \* the server's databases, in the order it lists them
    conn,               \* self._conn
    database_cache,     \* self._database_cache: name -> Database
    default_database,   \* self._default_database
    nextObj,            \* identity of the next object the client constructs
    last,               \* the last call of a client method and what it did
    callers             \* two threads calling db on the one client: where each is

vars == <<phase, srvAll, conn, database_cache, default_database, nextObj, last,
          callers>>

\* ----------------------------------------------------------- the server

Server == Range(srvAll)

\* Subsequences of s (the databases visible to the authenticated user are
\* some of the server's databases, listed in the server's order).
RECURSIVE SubSeqs(_)
SubSeqs(s) ==
    IF s = <<>> THEN {<<>>}
    ELSE LET rest == SubSeqs(Tail(s))
         IN  rest \cup {<<Head(s)>> \o r : r \in rest}

Response(status, result) == [status |-> status, result |-> result]

\* The answer to a request that was never sent.
NoResponse == Response(0, <<>>)

GetRefusals == {Response(st, <<>>) : st \in GetStatuses \ {HTTP_OK}}

\* Answers <<r1, r2>> to GET /_api/database/user and GET /_api/database of a
\* server whose databases are all and whose user sees one of views.  The
\* second request gets an answer only if the client sends it, which it does
\* after a 200 to the first; neither does when the client sends none.
ListingAnswers(views, all) ==
    {<<r1, NoResponse>> : r1 \in GetRefusals} \cup
    {<<Response(HTTP_OK, u), r2>> :
        u \in views, r2 \in {Response(HTTP_OK, all)} \cup GetRefusals} \cup
    {<<NoResponse, NoResponse>>}

\* The server answered exactly the n listing requests the client sent.
Answered(a, n) == Cardinality({i \in 1..2 : a[i] # NoResponse}) = n

\* Answers to POST /_api/database: 201 when the database is new and the
\* server creates it, a refusal otherwise or when it fails.
PostStatuses(name) ==
    (IF name \in Server THEN {} ELSE {HTTP_CREATED}) \cup PostRefusals

\* Answers to DELETE /_api/database/{name}: 200 when the database exists,
\* is not "_system" and is dropped, a refusal otherwise.
DeleteStatuses(name) ==
    (IF name \in Server /\ name # "_system" THEN {HTTP_OK} ELSE {}) \cup DeleteRefusals

ServerAfterPost(name, status) ==
    IF status = HTTP_CREATED THEN Append(srvAll, name) ELSE srvAll

ServerAfterDelete(name, status) ==
    IF status = HTTP_OK THEN SelectSeq(srvAll, LAMBDA n : n # name) ELSE srvAll

\* ------------------------------------------------------------ the client

\* What one call did: the exception it raised ("None": it returned), what it
\* returned, the requests it issued, the cache invalidation it ran and the
\* full listing that one used, the cache and the server's databases before
\* and after, and whether the invalidation it completed came straight after
\* one the call before it completed on the same listing (rerun).
Call(op, name, users) ==
    [op |-> op, name |-> name, users |-> users,
     raised |-> "None", handle |-> NoDatabase,
     dbs |-> [user |-> <<>>, all |-> <<>>],
     requests |-> <<>>,
     invalidations |-> 0, invalidated |-> FALSE, listing |-> <<>>,
     cacheBefore |-> EmptyCache,
     serverBefore |-> {}, serverAfter |-> {},
     rerun |-> FALSE]

\* Mutant: the two results are returned under each other's key.
databases_swapped(r1, r2) ==
    LET q1 == Request("GET", <<"_api", "database", "user">>, NoBody, r1.status)
        q2 == Request("GET", <<"_api", "database">>, NoBody, r2.status)
    IN  IF r1.status # HTTP_OK
        THEN [raised |-> "ArangoDatabaseListError", requests |-> <<q1>>,
              value |-> [user |-> <<>>, all |-> <<>>]]
        ELSE IF r2.status # HTTP_OK
        THEN [raised |-> "ArangoDatabaseListError", requests |-> <<q1, q2>>,
              value |-> [user |-> <<>>, all |-> <<>>]]
        ELSE [raised |-> "None", requests |-> <<q1, q2>>,
              value |-> [user |-> r2.result, all |-> r1.result]]

\* ArangoDB.databases: the user listing, then the full listing.
databases(r1, r2) ==
    LET q1 == Request("GET", <<"_api", "database", "user">>, NoBody, r1.status)
        q2 == Request("GET", <<"_api", "database">>, NoBody, r2.status)
    IN  IF r1.status # HTTP_OK
        THEN [raised |-> "ArangoDatabaseListError", requests |-> <<q1>>,
              value |-> [user |-> <<>>, all |-> <<>>]]
        ELSE IF r2.status # HTTP_OK
        THEN [raised |-> "ArangoDatabaseListError", requests |-> <<q1, q2>>,
              value |-> [user |-> <<>>, all |-> <<>>]]
        ELSE [raised |-> "None", requests |-> <<q1, q2>>,
              value |-> [user |-> r1.result, all |-> r2.result]]


\* Mutant: nothing is evicted.
StaleNamesNone(cached_dbs, real_dbs) == {}

\* cached_dbs - real_dbs: the names a rebuild evicts.
StaleNames(cached_dbs, real_dbs) == cached_dbs \ real_dbs

\* Mutant: every listed name gets a new handle, cached or not.
FreshNamesAll(real_dbs, cached_dbs) == real_dbs

\* real_dbs - cached_dbs: the names a rebuild constructs handles for.
FreshNames(real_dbs, cached_dbs) == real_dbs \ cached_dbs

\* for db_name in cached_dbs - real_dbs: del self._database_cache[db_name]
EvictStale(cache, stale) == [n \in DOMAIN cache \ stale |-> cache[n]]

\* Mutant: the cache entry for "_system" is the default database itself.
NewDatabaseReusingDefault(db_name, k) ==
    IF db_name = "_system" THEN default_database
    ELSE Database(k, db_name, Connection(k, db_name))

\* Mutant: the new Database is given the client's own connection, as the
\* default database is.
NewDatabaseOnClientConnection(db_name, k) == Database(k, db_name, conn)

\* The Database a rebuild constructs for db_name: a new object with a new
\* Connection scoped to db_name.  k is the identity of both new objects
\* (a Connection and a Database are never compared with each other).
NewDatabase(db_name, k) == Database(k, db_name, Connection(k, db_name))

\* Mutant: an entry that is already there is kept.
AssignIfAbsent(cache, db_name, database) == cache @@ (db_name :> database)

\* self._database_cache[db_name] = database
Assign(cache, db_name, database) == (db_name :> database) @@ cache

\* for db_name in real_dbs - cached_dbs: self._database_cache[db_name] = ...
\* A Python set is iterated in an order of its own; CHOOSE fixes one.  The
\* order only decides which identity each new object gets.
RECURSIVE InsertNew(_, _, _)
InsertNew(cache, fresh, k) ==
    IF fresh = {} THEN cache
    ELSE LET db_name == CHOOSE n \in fresh : TRUE
         IN  InsertNew(Assign(cache, db_name, NewDatabase(db_name, k)),
                       fresh \ {db_name}, k + 1)

\* Mutant: the cache is emptied and built again from the listing.
invalidate_by_rebuilding(cache, r1, r2, k) ==
    LET d == databases(r1, r2)
    IN  IF d.raised # "None"
        THEN [raised |-> d.raised, requests |-> d.requests, cache |-> cache,
              nextObj |-> k, listing |-> <<>>, completed |-> FALSE]
        ELSE LET real_dbs == Range(d.value.all)
             IN  [raised |-> "None", requests |-> d.requests,
                  cache |-> InsertNew(EmptyCache, real_dbs, k),
                  nextObj |-> k + Cardinality(real_dbs),
                  listing |-> d.value.all, completed |-> TRUE]

\* Mutant: a listing that fails is taken for an empty one.
invalidate_clearing_on_failure(cache, r1, r2, k) ==
    LET d == databases(r1, r2)
    IN  IF d.raised # "None"
        THEN [raised |-> d.raised, requests |-> d.requests, cache |-> EmptyCache,
              nextObj |-> k, listing |-> <<>>, completed |-> FALSE]
        ELSE LET real_dbs == Range(d.value.all)
                 cached_dbs == DOMAIN cache
                 stale == StaleNames(cached_dbs, real_dbs)
                 fresh == FreshNames(real_dbs, cached_dbs)
             IN  [raised |-> "None", requests |-> d.requests,
                  cache |-> InsertNew(EvictStale(cache, stale), fresh, k),
                  nextObj |-> k + Cardinality(fresh),
                  listing |-> d.value.all, completed |-> TRUE]

\* ArangoDB._invalidate_database_cache, given the answers to the two
\* listing requests self.databases issues and the next free identity.
invalidate_database_cache(cache, r1, r2, k) ==
    LET d == databases(r1, r2)
    IN  IF d.raised # "None"
        THEN [raised |-> d.raised, requests |-> d.requests, cache |-> cache,
              nextObj |-> k, listing |-> <<>>, completed |-> FALSE]
        ELSE LET real_dbs == Range(d.value.all)
                 cached_dbs == DOMAIN cache
                 stale == StaleNames(cached_dbs, real_dbs)
                 fresh == FreshNames(real_dbs, cached_dbs)
             IN  [raised |-> "None", requests |-> d.requests,
                  cache |-> InsertNew(EvictStale(cache, stale), fresh, k),
                  nextObj |-> k + Cardinality(fresh),
                  listing |-> d.value.all, completed |-> TRUE]

\* Mutant: every call rebuilds the cache, hit or miss.
db_always_rebuilds(cache, name, r1, r2, k) ==
    LET inv == invalidate_database_cache(cache, r1, r2, k)
    IN  [raised |-> IF inv.raised # "None" THEN inv.raised
                    ELSE IF name \notin DOMAIN inv.cache
                    THEN "ArangoDatabaseNotFoundError"
                    ELSE "None",
         handle |-> IF inv.raised = "None" /\ name \in DOMAIN inv.cache
                    THEN inv.cache[name] ELSE NoDatabase,
         requests |-> inv.requests, cache |-> inv.cache,
         nextObj |-> inv.nextObj, invalidations |-> 1,
         invalidated |-> inv.completed, listing |-> inv.listing]

\* Mutant: a miss constructs the handle without asking the server.
db_constructs_on_miss(cache, name, r1, r2, k) ==
    LET hit == name \in DOMAIN cache
        h == IF hit THEN cache[name] ELSE NewDatabase(name, k)
    IN  [raised |-> "None", handle |-> h, requests |-> <<>>,
         cache |-> (name :> h) @@ cache,
         nextObj |-> IF hit THEN k ELSE k + 1, invalidations |-> 0,
         invalidated |-> FALSE, listing |-> <<>>]

\* ArangoDB.db
db(cache, name, r1, r2, k) ==
    IF name \in DOMAIN cache
    THEN [raised |-> "None", handle |-> cache[name], requests |-> <<>>,
          cache |-> cache, nextObj |-> k, invalidations |-> 0,
          invalidated |-> FALSE, listing |-> <<>>]
    ELSE LET inv == invalidate_database_cache(cache, r1, r2, k)
         IN  [raised |-> IF inv.raised # "None" THEN inv.raised
                         ELSE IF name \notin DOMAIN inv.cache
                         THEN "ArangoDatabaseNotFoundError"
                         ELSE "None",
              handle |-> IF inv.raised = "None" /\ name \in DOMAIN inv.cache
                         THEN inv.cache[name] ELSE NoDatabase,
              requests |-> inv.requests, cache |-> inv.cache,
              nextObj |-> inv.nextObj, invalidations |-> 1,
              invalidated |-> inv.completed, listing |-> inv.listing]

\* ``if users``: None and the empty dict are both false.
Truthy(users) == users \notin {"None", "{}"}

\* data = {"name": name, "users": users} if users else {"name": name}
CreateData(name, users) ==
    IF Truthy(users) THEN {<<"name", name>>, <<"users", users>>}
    ELSE {<<"name", name>>}

\* Mutant: only a client or server error status is a failure.
CreateFailedOnErrorClass(status) == status >= 400

\* if res.status_code != 201: raise ArangoDatabaseCreateError(res)
CreateFailed(status) == status # HTTP_CREATED

\* if res.status_code != 200: raise ArangoDatabaseDeleteError(res)
DeleteFailed(status) == status # HTTP_OK

\* What a failed first request leaves: the exception, the one request, and
\* everything else as it was.
Aborted(exception, request, cache, k) ==
    [raised |-> exception, handle |-> NoDatabase, requests |-> <<request>>,
     cache |-> cache, nextObj |-> k, invalidations |-> 0,
     invalidated |-> FALSE, listing |-> <<>>]

\* What the invalidation an operation ends with leaves.
ThenInvalidated(request, inv) ==
    [raised |-> inv.raised, handle |-> NoDatabase,
     requests |-> <<request>> \o inv.requests,
     cache |-> inv.cache, nextObj |-> inv.nextObj, invalidations |-> 1,
     invalidated |-> inv.completed, listing |-> inv.listing]

\* Mutant: a successful create returns without invalidating the cache.
create_database_without_invalidation(cache, name, users, status, r1, r2, k) ==
    LET q == Request("POST", <<"_api", "database">>, CreateData(name, users), status)
    IN  IF CreateFailed(status)
        THEN Aborted("ArangoDatabaseCreateError", q, cache, k)
        ELSE [Aborted("None", q, cache, k) EXCEPT !.invalidations = 0]

\* ArangoDB.create_database.  r1 and r2 answer the listing requests, which
\* the server receives after it has carried out the POST.
create_database(cache, name, users, status, r1, r2, k) ==
    LET q == Request("POST", <<"_api", "database">>, CreateData(name, users), status)
    IN  IF CreateFailed(status)
        THEN Aborted("ArangoDatabaseCreateError", q, cache, k)
        ELSE ThenInvalidated(q, invalidate_database_cache(cache, r1, r2, k))

\* ArangoDB.delete_database
delete_database(cache, name, status, r1, r2, k) ==
    LET q == Request("DELETE", <<"_api", "database", name>>, NoBody, status)
    IN  IF DeleteFailed(status)
        THEN Aborted("ArangoDatabaseDeleteError", q, cache, k)
        ELSE ThenInvalidated(q, invalidate_database_cache(cache, r1, r2, k))

\* ------------------------------------------------------------------ actions

Callers == {1, 2}

\* A thread that has not called db: pc is where it stands, name the argument
\* of db, real_dbs, stale and fresh the locals of _invalidate_database_cache
\* (the names still to evict and to insert), requests the requests it sent,
\* raised and line the exception that ended the call and where, handle what
\* db returned, made the Databases it constructed, lost the names the other
\* thread evicted while this one was in db.
Idle ==
    [pc |-> "idle", name |-> "None", real_dbs |-> {}, stale |-> {},
     fresh |-> {}, requests |-> 0, raised |-> "None", line |-> 0,
     handle |-> NoDatabase, made |-> {}, lost |-> {}]

Init ==
    /\ callers = [c \in Callers |-> Idle]
    /\ phase = "new"
    /\ srvAll = <<"_system">>
    /\ conn = NoConnection
    /\ database_cache = NoCache
    /\ default_database = NoDatabase
    /\ nextObj = 1
    /\ last = Call("none", "None", "None")

\* The record of a call that ran method op and had effect e.
Done(op, name, users, e, serverAfter) ==
    [Call(op, name, users) EXCEPT
        !.raised = e.raised, !.handle = e.handle, !.requests = e.requests,
        !.invalidations = e.invalidations, !.invalidated = e.invalidated,
        !.listing = e.listing,
        !.cacheBefore = database_cache,
        !.serverBefore = Server, !.serverAfter = Range(serverAfter),
        !.rerun = /\ last.invalidated /\ e.invalidated
                  /\ Range(e.listing) = Range(last.listing)]

\* The record of a call of __init__ that sent q.
Constructed(exception, q) ==
    [Call("__init__", "None", "None") EXCEPT
        !.raised = exception, !.requests = <<q>>,
        !.serverBefore = Server, !.serverAfter = Server]

\* Mutant: the cache and the default database are set up before the
\* connection is checked.
ConstructBeforeChecking(status) ==
    /\ phase = "new"
    /\ conn' = Connection(0, "None")
    /\ database_cache' = EmptyCache
    /\ default_database' = Database(0, "_system", conn')
    /\ LET q == Request("HEAD", <<"_api", "version">>, NoBody, status)
       IN  IF status # HTTP_OK
           THEN /\ phase' = "failed"
                /\ last' = Constructed("ArangoConnectionError", q)
           ELSE /\ phase' = "ready"
                /\ last' = Constructed("None", q)
    /\ UNCHANGED <<callers, srvAll, nextObj>>

\* ArangoDB.__init__: HEAD /_api/version, then the cache and the default
\* database, which is given the client's own connection.
Construct(status) ==
    /\ phase = "new"
    /\ conn' = Connection(0, "None")
    /\ LET q == Request("HEAD", <<"_api", "version">>, NoBody, status)
       IN  IF status # HTTP_OK
           THEN /\ phase' = "failed"
                /\ database_cache' = database_cache
                /\ default_database' = default_database
                /\ last' = Constructed("ArangoConnectionError", q)
           ELSE /\ phase' = "ready"
                /\ database_cache' = EmptyCache
                /\ default_database' = Database(0, "_system", conn')
                /\ last' = Constructed("None", q)
    /\ UNCHANGED <<callers, srvAll, nextObj>>

\* ArangoDB.__getattr__ and ArangoDB.__getitem__: the access goes to the
\* default database, which the call hands on (handle).
GetAttr ==
    /\ phase = "ready"
    /\ last' = [Call("__getattr__", "None", "None") EXCEPT
                   !.handle = default_database,
                   !.cacheBefore = database_cache,
                   !.serverBefore = Server, !.serverAfter = Server]
    /\ UNCHANGED <<callers, phase, srvAll, conn, database_cache, default_database, nextObj>>

GetItem ==
    /\ phase = "ready"
    /\ last' = [Call("__getitem__", "None", "None") EXCEPT
                   !.handle = default_database,
                   !.cacheBefore = database_cache,
                   !.serverBefore = Server, !.serverAfter = Server]
    /\ UNCHANGED <<callers, phase, srvAll, conn, database_cache, default_database, nextObj>>

\* ArangoDB.version
Version(status) ==
    /\ phase = "ready"
    /\ LET q == Request("GET", <<"_api", "version">>, NoBody, status)
       IN  last' = [Call("version", "None", "None") EXCEPT
                       !.raised = IF status # HTTP_OK THEN "ArangoVersionError" ELSE "None",
                       !.requests = <<q>>,
                       !.cacheBefore = database_cache,
                       !.serverBefore = Server, !.serverAfter = Server]
    /\ UNCHANGED <<callers, phase, srvAll, conn, database_cache, default_database, nextObj>>

\* ArangoDB.databases
Databases(r1, r2) ==
    /\ phase = "ready"
    /\ LET d == databases(r1, r2)
       IN  /\ Answered(<<r1, r2>>, Len(d.requests))
           /\ last' = [Call("databases", "None", "None") EXCEPT
                       !.raised = d.raised, !.dbs = d.value,
                       !.requests = d.requests,
                       !.cacheBefore = database_cache,
                       !.serverBefore = Server, !.serverAfter = Server]
    /\ UNCHANGED <<callers, phase, srvAll, conn, database_cache, default_database, nextObj>>

\* A call whose effect on the client is e and which leaves the server with
\* the databases serverAfter.
Apply(op, name, users, e, serverAfter) ==
    /\ e.nextObj <= MaxObjects + 1
    /\ database_cache' = e.cache
    /\ nextObj' = e.nextObj
    /\ srvAll' = serverAfter
    /\ last' = Done(op, name, users, e, serverAfter)
    /\ UNCHANGED <<callers, phase, conn, default_database>>

\* db, create_database and delete_database read only the full listing of
\* the two (line 62), so the user listing they are answered is the full one.
Db(name, r1, r2) ==
    /\ phase = "ready"
    /\ LET e == db(database_cache, name, r1, r2, nextObj)
       IN  /\ Answered(<<r1, r2>>, Len(e.requests))
           /\ Apply("db", name, "None", e, srvAll)

\* The server carries out the POST or DELETE before it answers the listing
\* requests that follow it.
CreateDatabase(name, users, status) ==
    /\ phase = "ready"
    /\ LET after == ServerAfterPost(name, status)
       IN  \E a \in ListingAnswers({after}, after) :
               LET e == create_database(database_cache, name, users, status,
                                        a[1], a[2], nextObj)
               IN  /\ Answered(a, Len(e.requests) - 1)
                   /\ Apply("create_database", name, users, e, after)

DeleteDatabase(name, status) ==
    /\ phase = "ready"
    /\ LET after == ServerAfterDelete(name, status)
       IN  \E a \in ListingAnswers({after}, after) :
               LET e == delete_database(database_cache, name, status,
                                        a[1], a[2], nextObj)
               IN  /\ Answered(a, Len(e.requests) - 1)
                   /\ Apply("delete_database", name, "None", e, after)

\* Another client creates or drops a database.
ExternalCreate(name) ==
    /\ name \notin Server
    /\ srvAll' = Append(srvAll, name)
    /\ UNCHANGED <<callers, phase, conn, database_cache, default_database, nextObj, last>>

ExternalDelete(name) ==
    /\ name \in Server
    /\ name # "_system"
    /\ srvAll' = SelectSeq(srvAll, LAMBDA n : n # name)
    /\ UNCHANGED <<callers, phase, conn, database_cache, default_database, nextObj, last>>

Next ==
    \/ \E status \in HeadStatuses : Construct(status)
    \/ \E name \in Names : ExternalCreate(name)
    \/ \E name \in Names : ExternalDelete(name)
    \/ GetAttr
    \/ GetItem
    \/ \E status \in GetStatuses : Version(status)
    \/ \E a \in ListingAnswers(SubSeqs(srvAll), srvAll) : Databases(a[1], a[2])
    \/ \E name \in Names, a \in ListingAnswers({srvAll}, srvAll) :
           Db(name, a[1], a[2])
    \/ \E name \in Names, users \in UsersArgs :
           \E status \in PostStatuses(name) : CreateDatabase(name, users, status)
    \/ \E name \in Names :
           \E status \in DeleteStatuses(name) : DeleteDatabase(name, status)

Spec == Init /\ [][Next]_vars

\* ------------------------------------------- two threads on one client
\* db and _invalidate_database_cache statement by statement: the client has
\* no lock, so another thread's statements run between any two of them.

\* The server's listings: "_system" first, the others in the order created.
Listings ==
    {l \in SubSeqs(<<"_system", "a", "b">>) \cup SubSeqs(<<"_system", "b", "a">>) :
        l # <<>> /\ l[1] = "_system"}

\* The client is constructed and has completed at most one rebuild, against
\* an earlier set of the server's databases; the threads have not started.
InitConc ==
    /\ callers = [c \in Callers |-> Idle]
    /\ phase = "ready"
    /\ conn = Connection(0, "None")
    /\ default_database = Database(0, "_system", conn)
    /\ srvAll \in Listings
    /\ \E earlier \in {{}} \cup {Range(l) : l \in Listings} :
           /\ database_cache = InsertNew(EmptyCache, earlier, 1)
           /\ nextObj = 1 + Cardinality(earlier)
    /\ last = Call("none", "None", "None")

Other(c) == CHOOSE d \in Callers : d # c

InCall(c) == callers[c].pc \notin {"idle", "done"}

\* Thread c goes on to pc; a raise ends its call.
Goes(c, pc) == [callers EXCEPT ![c].pc = pc]

Raises(c, exception, line) ==
    [callers EXCEPT ![c].pc = "done", ![c].raised = exception, ![c].line = line]

Returns(c, handle) ==
    [callers EXCEPT ![c].pc = "done", ![c].handle = handle]

\* db, line 116: if name in self._database_cache
DbCheck(c, name) ==
    /\ phase = "ready"
    /\ callers[c].pc = "idle"
    /\ callers' = [callers EXCEPT
           ![c].name = name,
           ![c].pc = IF name \in DOMAIN database_cache THEN "hit" ELSE "get_user"]
    /\ UNCHANGED <<phase, srvAll, conn, database_cache, default_database, nextObj, last>>

\* db, line 117: return self._database_cache[name]
DbHit(c) ==
    /\ callers[c].pc = "hit"
    /\ callers' = IF callers[c].name \in DOMAIN database_cache
                  THEN Returns(c, database_cache[callers[c].name])
                  ELSE Raises(c, "KeyError", 117)
    /\ UNCHANGED <<phase, srvAll, conn, database_cache, default_database, nextObj, last>>

\* databases, lines 98-101: GET /_api/database/user
GetUser(c, status) ==
    /\ callers[c].pc = "get_user"
    /\ callers' = [(IF status # HTTP_OK
                    THEN Raises(c, "ArangoDatabaseListError", 100)
                    ELSE Goes(c, "get_all"))
                   EXCEPT ![c].requests = 1]
    /\ UNCHANGED <<phase, srvAll, conn, database_cache, default_database, nextObj, last>>

\* databases, lines 103-108, and line 62: real_dbs = set(self.databases["all"])
GetAll(c, status) ==
    /\ callers[c].pc = "get_all"
    /\ callers' = [(IF status # HTTP_OK
                    THEN Raises(c, "ArangoDatabaseListError", 105)
                    ELSE [Goes(c, "snapshot") EXCEPT ![c].real_dbs = Server])
                   EXCEPT ![c].requests = 2]
    /\ UNCHANGED <<phase, srvAll, conn, database_cache, default_database, nextObj, last>>

\* line 63: cached_dbs = set(self._database_cache); both loops run over
\* sets computed from this snapshot and from real_dbs.
Snapshot(c) ==
    /\ callers[c].pc = "snapshot"
    /\ LET cached_dbs == DOMAIN database_cache
       IN  callers' = [Goes(c, "evict") EXCEPT
               ![c].stale = StaleNames(cached_dbs, callers[c].real_dbs),
               ![c].fresh = FreshNames(callers[c].real_dbs, cached_dbs)]
    /\ UNCHANGED <<phase, srvAll, conn, database_cache, default_database, nextObj, last>>

\* lines 64-65, one turn of the loop: del self._database_cache[db_name]
Evict(c) ==
    /\ callers[c].pc = "evict"
    /\ IF callers[c].stale = {}
       THEN /\ callers' = Goes(c, "insert")
            /\ database_cache' = database_cache
       ELSE LET db_name == CHOOSE n \in callers[c].stale : TRUE
                d == Other(c)
            IN  IF db_name \notin DOMAIN database_cache
                THEN /\ callers' = Raises(c, "KeyError", 65)
                     /\ database_cache' = database_cache
                ELSE /\ callers' = [callers EXCEPT
                            ![c].stale = @ \ {db_name},
                            ![d].lost = IF InCall(d) THEN @ \cup {db_name} ELSE @]
                     /\ database_cache' = EvictStale(database_cache, {db_name})
    /\ UNCHANGED <<phase, srvAll, conn, default_database, nextObj, last>>

\* lines 66-77, one turn of the loop: self._database_cache[db_name] = Database(...)
Insert(c) ==
    /\ callers[c].pc = "insert"
    /\ IF callers[c].fresh = {}
       THEN /\ callers' = Goes(c, "recheck")
            /\ UNCHANGED <<database_cache, nextObj>>
       ELSE LET db_name == CHOOSE n \in callers[c].fresh : TRUE
                database == NewDatabase(db_name, nextObj)
            IN  /\ callers' = [callers EXCEPT
                       ![c].fresh = @ \ {db_name},
                       ![c].made = @ \cup {database}]
                /\ database_cache' = Assign(database_cache, db_name, database)
                /\ nextObj' = nextObj + 1
    /\ UNCHANGED <<phase, srvAll, conn, default_database, last>>

\* db, lines 120-121: if name not in self._database_cache: raise
DbRecheck(c) ==
    /\ callers[c].pc = "recheck"
    /\ callers' = IF callers[c].name \notin DOMAIN database_cache
                  THEN Raises(c, "ArangoDatabaseNotFoundError", 121)
                  ELSE Goes(c, "return")
    /\ UNCHANGED <<phase, srvAll, conn, database_cache, default_database, nextObj, last>>

\* db, line 122: return self._database_cache[name]
DbReturn(c) ==
    /\ callers[c].pc = "return"
    /\ callers' = IF callers[c].name \in DOMAIN database_cache
                  THEN Returns(c, database_cache[callers[c].name])
                  ELSE Raises(c, "KeyError", 122)
    /\ UNCHANGED <<phase, srvAll, conn, database_cache, default_database, nextObj, last>>

NextConc ==
    \/ \E name \in Names : ExternalCreate(name)
    \/ \E name \in Names : ExternalDelete(name)
    \/ \E c \in Callers, name \in Names : DbCheck(c, name)
    \/ \E c \in Callers : DbHit(c)
    \/ \E c \in Callers, status \in GetStatuses : GetUser(c, status)
    \/ \E c \in Callers, status \in GetStatuses : GetAll(c, status)
    \/ \E c \in Callers : Snapshot(c)
    \/ \E c \in Callers : Evict(c)
    \/ \E c \in Callers : Insert(c)
    \/ \E c \in Callers : DbRecheck(c)
    \/ \E c \in Callers : DbReturn(c)

SpecConc == InitConc /\ [][NextConc]_vars

\* ------------------------------------------------------------------- claims

Returned == last.raised = "None"

\* The statuses of the listing requests the last call issued.
ListingStatuses ==
    {last.requests[i].status :
        i \in {j \in 1..Len(last.requests) : last.requests[j].method = "GET"}}

\* Every answer the server can give to a call made in the current state.
AnswersNow == ListingAnswers({srvAll}, srvAll)

\* C1: once create_database(x) has returned, x is in the cache, and a db(x)
\* called next, whatever the server has become and would answer, returns
\* the cached handle and issues no request and runs no rebuild.
C1_CreateThenDbHits ==
    (last.op = "create_database" /\ Returned) =>
        /\ last.name \in DOMAIN database_cache
        /\ \A a \in AnswersNow :
               LET e == db(database_cache, last.name, a[1], a[2], nextObj)
               IN  /\ e.raised = "None"
                   /\ e.handle = database_cache[last.name]
                   /\ e.handle.name = last.name
                   /\ e.requests = <<>>
                   /\ e.invalidations = 0
                   /\ e.cache = database_cache

\* create_database returned and its invalidation constructed the handle.
C1_Witness ==
    /\ last.op = "create_database" /\ Returned
    /\ last.name \notin DOMAIN last.cacheBefore
    /\ last.name \in DOMAIN database_cache

\* C2: a db(x) that follows a delete_database(x) which returned, with no
\* change of the server in between, raises ArangoDatabaseNotFoundError and
\* returns no handle.
C2_DeleteThenDbNotFound ==
    [][(/\ last.op = "delete_database" /\ Returned
        /\ last'.op = "db" /\ last'.name = last.name
        /\ last'.serverBefore = last.serverAfter)
       => (/\ last'.raised = "ArangoDatabaseNotFoundError"
           /\ last'.handle = NoDatabase)]_vars

HandleIds(cache) == {cache[n].hid : n \in DOMAIN cache}

\* The names the last call's completed invalidation evicted, constructed
\* handles for, and left alone.
Evicted == DOMAIN last.cacheBefore \ DOMAIN database_cache
Inserted == DOMAIN database_cache \ DOMAIN last.cacheBefore
Kept == DOMAIN last.cacheBefore \cap Range(last.listing)

\* C4: when an invalidation has completed, the cached names are exactly the
\* names of the full listing it used, which is the server's; every cached
\* name outside it is evicted, and every listed name not cached before has
\* a handle of its own name that did not exist before the invalidation.
C4_CacheEqualsListing ==
    last.invalidated =>
        /\ Range(last.listing) = last.serverAfter
        /\ DOMAIN database_cache = Range(last.listing)
        /\ Evicted = DOMAIN last.cacheBefore \ Range(last.listing)
        /\ Inserted = Range(last.listing) \ DOMAIN last.cacheBefore
        /\ \A n \in Inserted :
               /\ database_cache[n].name = n
               /\ database_cache[n].hid \in (nextObj - Cardinality(Inserted))..(nextObj - 1)
               /\ database_cache[n].hid \notin HandleIds(last.cacheBefore)
        /\ \A n, m \in Inserted :
               database_cache[n].hid = database_cache[m].hid => n = m

\* One invalidation evicted a name and constructed a handle for another.
C4_Witness ==
    /\ last.invalidated
    /\ Evicted # {}
    /\ Inserted # {}

\* C5: a completed invalidation leaves every name that was cached before and
\* is in the listing bound to the handle it had; when the listing is the
\* set of names cached before, the whole cache is as it was.
C5_KeptHandlesKeepIdentity ==
    last.invalidated =>
        /\ \A n \in Kept :
               /\ n \in DOMAIN database_cache
               /\ database_cache[n] = last.cacheBefore[n]
        /\ (Range(last.listing) = DOMAIN last.cacheBefore =>
               database_cache = last.cacheBefore)

\* An invalidation changed the cache around an entry it kept.
C5_Witness ==
    /\ last.invalidated
    /\ Kept # {}
    /\ Evicted \cup Inserted # {}

\* C6: an invalidation that completes straight after another one that
\* completed on the same listing leaves the cache, names and handles, as
\* the first one left it.
C6_Idempotent ==
    last.rerun => database_cache = last.cacheBefore

\* The second of two invalidations in a row on one listing, on a cache that
\* holds handles.
C6_Witness ==
    /\ last.rerun
    /\ Cardinality(DOMAIN database_cache) >= 2

\* The keys of the body of the POST the last create_database call sent.
PostBody == last.requests[1].body
PostKeys == {kv[1] : kv \in PostBody}

\* C7: the body of the POST holds the users field, with the caller's value,
\* for every value the caller supplies, and has no users field exactly when
\* the caller supplied none.
C7_UsersFieldIffSupplied ==
    last.op = "create_database" =>
        /\ <<"name", last.name>> \in PostBody
        /\ (last.users # "None" => <<"users", last.users>> \in PostBody)
        /\ (last.users = "None" <=> "users" \notin PostKeys)

OwnError(op) ==
    IF op = "create_database" THEN "ArangoDatabaseCreateError"
    ELSE "ArangoDatabaseDeleteError"

\* C8: whenever create_database or delete_database raises, the server's
\* databases are the ones it had before the call, and the exception is the
\* operation's own: ArangoDatabaseCreateError, ArangoDatabaseDeleteError.
C8_NoPartialFailure ==
    (last.op \in {"create_database", "delete_database"} /\ ~Returned) =>
        /\ last.serverAfter = last.serverBefore
        /\ last.raised = OwnError(last.op)

\* The Database handles the client holds: the cached ones and the default.
Handles == {database_cache[n] : n \in DOMAIN database_cache} \cup {default_database}

StatusDecides(method, expected, exception) ==
    LET q == last.requests[1]
    IN  /\ q.method = method
        /\ IF q.status # expected
           THEN /\ last.raised = exception
                /\ Len(last.requests) = 1
                /\ last.invalidations = 0
                /\ ~last.invalidated
                /\ database_cache = last.cacheBefore
           ELSE /\ last.raised # exception
                /\ last.invalidations = 1
                /\ Len(last.requests) \in {2, 3}
                /\ \A i \in 2..Len(last.requests) : last.requests[i].method = "GET"

\* C10: create_database raises ArangoDatabaseCreateError on every status of
\* the POST but 201, delete_database raises ArangoDatabaseDeleteError on
\* every status of the DELETE but 200; then no listing request follows and
\* the cache is as it was.  On 201, on 200, one invalidation runs after
\* the request.
C10_StatusDecides ==
    /\ last.op = "create_database" =>
           StatusDecides("POST", HTTP_CREATED, "ArangoDatabaseCreateError")
    /\ last.op = "delete_database" =>
           StatusDecides("DELETE", HTTP_OK, "ArangoDatabaseDeleteError")

\* create_database raised on a 202, a success status that is not 201, with
\* handles in the cache.
C10_Witness ==
    /\ last.op = "create_database"
    /\ last.requests[1].status \notin {HTTP_CREATED, 409}
    /\ last.raised = "ArangoDatabaseCreateError"
    /\ DOMAIN last.cacheBefore # {}

\* C11: __init__ sends one request, HEAD /_api/version, and nothing else.
\* On any status but 200 it raises ArangoConnectionError and the client has
\* no cache and no default database, then and ever after; on 200 the client
\* has an empty cache and a default database named "_system".
C11_ConstructionChecksFirst ==
    /\ phase = "new" => last.op = "none"
    /\ last.op = "__init__" =>
           /\ Len(last.requests) = 1
           /\ last.requests[1].method = "HEAD"
           /\ last.requests[1].path = <<"_api", "version">>
           /\ IF last.requests[1].status # HTTP_OK
              THEN last.raised = "ArangoConnectionError" /\ phase = "failed"
              ELSE /\ Returned
                   /\ phase = "ready"
                   /\ database_cache = EmptyCache
                   /\ default_database.name = "_system"
                   /\ default_database # NoDatabase
    /\ phase = "failed" =>
           /\ last.op = "__init__"
           /\ last.raised = "ArangoConnectionError"
           /\ database_cache = NoCache
           /\ default_database = NoDatabase

\* __init__ raised on a 503.
C11_Witness ==
    /\ phase = "failed"
    /\ last.op = "__init__"
    /\ last.requests[1].status = 503

\* C12: databases sends GET /_api/database/user, then GET /_api/database.
\* After a non-200 to the first it raises ArangoDatabaseListError and does
\* not send the second; after a non-200 to the second it raises
\* ArangoDatabaseListError; after two 200s it returns the first result as
\* user and the second as all, each in the order the server sent it.  The
\* cache is as it was.
C12_DatabasesListsBoth ==
    [][(last'.op = "databases" /\ last' # last) =>
        LET q == last'.requests
        IN  /\ database_cache' = database_cache
            /\ nextObj' = nextObj
            /\ Len(q) \in {1, 2}
            /\ q[1].method = "GET"
            /\ q[1].path = <<"_api", "database", "user">>
            /\ IF q[1].status # HTTP_OK
               THEN Len(q) = 1 /\ last'.raised = "ArangoDatabaseListError"
               ELSE /\ Len(q) = 2
                    /\ q[2].method = "GET"
                    /\ q[2].path = <<"_api", "database">>
                    /\ IF q[2].status # HTTP_OK
                       THEN last'.raised = "ArangoDatabaseListError"
                       ELSE /\ last'.raised = "None"
                            /\ last'.dbs.all = srvAll
                            /\ \A u \in SubSeqs(srvAll) :
                                   Databases(Response(HTTP_OK, u),
                                             Response(HTTP_OK, srvAll)) =>
                                       last'.dbs = [user |-> u, all |-> srvAll]
       ]_vars

\* databases returned two listings that differ, with handles in the cache.
C12_Witness ==
    /\ last.op = "databases" /\ Returned
    /\ Len(last.dbs.all) >= 2
    /\ last.dbs.user # last.dbs.all
    /\ last.dbs.user # <<>>
    /\ DOMAIN database_cache # {}

Methods ==
    {"version", "databases", "db", "create_database", "delete_database",
     "__getattr__", "__getitem__"}

\* C13: db(name) for a cached name returns the cached handle, sends nothing
\* and leaves the cache as it is, whatever the server's databases are.  An
\* invalidation runs only in a db that missed, in a create_database whose
\* POST was answered 201 and in a delete_database whose DELETE was answered
\* 200; a call that runs none leaves the cache as it was.
C13_RebuiltOnlyOnMissCreateDelete ==
    /\ (last.op = "db" /\ last.name \in DOMAIN last.cacheBefore) =>
           /\ Returned
           /\ last.handle = last.cacheBefore[last.name]
           /\ last.requests = <<>>
           /\ last.invalidations = 0
           /\ database_cache = last.cacheBefore
    /\ (last.op \in Methods /\ last.invalidations > 0) =>
           \/ last.op = "db" /\ last.name \notin DOMAIN last.cacheBefore
           \/ last.op = "create_database" /\ last.requests[1].status = HTTP_CREATED
           \/ last.op = "delete_database" /\ last.requests[1].status = HTTP_OK
    /\ (last.op \in Methods /\ last.invalidations = 0) =>
           database_cache = last.cacheBefore

\* db returned a cached handle for a name the server no longer had.
C13_Witness ==
    /\ last.op = "db" /\ Returned
    /\ last.name \in DOMAIN last.cacheBefore
    /\ last.name \notin last.serverBefore
    /\ last.requests = <<>>

C17_FailedListingLeavesCache ==
    (/\ last.op \in {"db", "create_database", "delete_database"}
     /\ last.invalidations = 1
     /\ ListingStatuses # {HTTP_OK}) =>
        /\ last.raised = "ArangoDatabaseListError"
        /\ ~last.invalidated
        /\ database_cache = last.cacheBefore

\* delete_database dropped a cached database on the server and its
\* invalidation failed: the entry is still cached.
C17_Witness ==
    /\ last.op = "delete_database"
    /\ last.raised = "ArangoDatabaseListError"
    /\ last.name \in DOMAIN database_cache
    /\ last.name \notin last.serverAfter

\* Thread c's call of db is over and returned a handle.
Got(c) == callers[c].pc = "done" /\ callers[c].raised = "None"

ConstructedFor(c, name) == {h \in callers[c].made : h.name = name}

\* Two threads asked for one name and were returned different Databases.
DoubleFetched(c, d) ==
    /\ Got(c) /\ Got(d)
    /\ callers[c].name = callers[d].name
    /\ callers[c].handle # callers[d].handle

\* Thread c was told that a database its own listing held does not exist.
TransientlyMissed(c) ==
    /\ callers[c].pc = "done"
    /\ callers[c].raised = "ArangoDatabaseNotFoundError"
    /\ callers[c].name \in callers[c].real_dbs

\* C15: db is not atomic.  Two threads asking for one name are returned
\* different handles only where both missed, each sent both listing
\* requests and each constructed a handle of its own for the name, the
\* later one replacing the earlier in the cache; a thread is told that a
\* database of its own listing does not exist only where the other thread
\* evicted the name during the call.  Both happen.
C15_DbIsNotAtomic ==
    \A c \in Callers :
        LET d == Other(c)
        IN  /\ DoubleFetched(c, d) =>
                /\ callers[c].requests = 2 /\ callers[d].requests = 2
                /\ ConstructedFor(c, callers[c].name) # {}
                /\ ConstructedFor(d, callers[d].name) # {}
                /\ {callers[c].handle, callers[d].handle} =
                       ConstructedFor(c, callers[c].name) \cup
                       ConstructedFor(d, callers[d].name)
            /\ TransientlyMissed(c) => callers[c].name \in callers[c].lost
            /\ \A h \in callers[c].made :
                   h.name \in DOMAIN database_cache =>
                       database_cache[h.name].hid >= h.hid

\* Both threads missed a database the server has, and each holds a handle
\* of its own for it.
C15_Witness ==
    /\ DoubleFetched(1, 2)
    /\ callers[1].name \in Server
    /\ callers[1].handle.name = callers[1].name
    /\ callers[2].handle.name = callers[2].name
    /\ callers[1].handle.hid # callers[2].handle.hid

\* A thread was told that a database does not exist which its own listing
\* held and the server still has: the other thread, rebuilding from an older
\* listing, evicted the entry before the recheck of line 120.
C15_TransientMiss ==
    \E c \in Callers :
        /\ TransientlyMissed(c)
        /\ callers[c].line = 121
        /\ callers[c].name \in Server

\* C16: when the invalidations of two threads interleave, every turn of the
\* eviction loop finds its name in the cache, and an invalidation raises
\* nothing but ArangoDatabaseListError.
C16_EvictionFindsItsName ==
    \A c \in Callers :
        /\ callers[c].pc = "evict" => callers[c].stale \subseteq DOMAIN database_cache
        /\ callers[c].line \in {65, 100, 105} =>
               callers[c].raised = "ArangoDatabaseListError"

====
